---- MODULE Spec2Model ----
(***************************************************************************)
(* Model of the medical documentation service.                              *)
(*                                                                         *)
(* The response mapping: gemini_processor._parse_response turns the        *)
(* decoded JSON object returned by the inference collaborator into the     *)
(* pydantic models of models.py (Spec), and main.py serializes the result  *)
(* with model_dump (SpecCalls).  The service: main.py's process_url and    *)
(* process_audio handlers with gemini_processor's get_client,              *)
(* process_youtube_url and process_audio_file (SpecSvc, and SpecLive under *)
(* fair scheduling).                                                       *)
(*                                                                         *)
(* A decoded JSON object is a record holding every key the code reads;     *)
(* a key the object does not carry holds Missing, a key carrying JSON null *)
(* holds None (json.loads decodes null to Python's None).  A list or an    *)
(* object under a key is tagged: [k |-> "missing" | "null" | ..., v |-> _] *)
(***************************************************************************)
EXTENDS Integers, Sequences, FiniteSets, TLC

\* one call of _parse_response: its arguments, where it is, what it returned
VARIABLES result_data, processing_time, pc, result
\* a second call on the same arguments, and the serialized first result
VARIABLES second, dumped
\* the service: the credential, the module-level client, the number of clients
\* constructed, the request the event loop is running, the requests, and the
\* collaborator's state of each request's uploaded file
VARIABLES api_key, client, constructed, running, req, remote

mapVars == <<result_data, processing_time, pc, result>>
callVars == <<second, dumped>>
svcVars == <<api_key, client, constructed, running, req, remote>>
vars == <<mapVars, callVars, svcVars>>

(***************************************************************************)
(* Bounds of the model.                                                    *)
(***************************************************************************)
\* longest list (segments, entities, tasks, strings) in a raw object
MaxItems == 2

(***************************************************************************)
(* JSON values.                                                            *)
(***************************************************************************)
Missing == "<missing>"
None == "<None>"

\* a key that holds a list, an object or a number: not in the dict, null, or
\* the value
MissingKey == [k |-> "missing"]
Null == [k |-> "null"]
List(s) == [k |-> "list", v |-> s]
Obj(d) == [k |-> "obj", v |-> d]
IntValue(n) == [k |-> "int", v |-> n]

\* an Optional field of a model that holds an object or a number
NoneValue == [k |-> "none"]
Some(x) == [k |-> "some", v |-> x]

MapSeq(Op(_), s) == [i \in DOMAIN s |-> Op(s[i])]

\* dict.get(key, default) for a scalar key: the default only when the key is
\* not in the dict; a key holding null yields None
Get(d, key, default) == IF d[key] = Missing THEN default ELSE d[key]

\* mutant of GetList: the key is read without a default
GetListNoDefault(d, key) == d[key]

\* dict.get(key, []) for a list key: [] when the key is not in the dict, None
\* when it holds null
GetList(d, key) == IF d[key].k = "missing" THEN List(<<>>) ELSE d[key]

\* mutant of GetDict: the key is read without a default
GetDictNoDefault(d, key, empty) == d[key]

\* dict.get(key, {}) for an object key; `empty` is the dict without keys
GetDict(d, key, empty) == IF d[key].k = "missing" THEN Obj(empty) ELSE d[key]

(***************************************************************************)
(* models.py: enumerations.                                                *)
(***************************************************************************)
Priority == {"HIGH", "MEDIUM", "LOW"}
TaskStatus == {"PENDING", "IN_PROGRESS", "COMPLETED"}
Emotion == {"happy", "sad", "angry", "neutral", "concerned", "calm"}

\* Enum(value): the member whose value equals `value` exactly; ValueError
\* otherwise (None included)
EnumValid(members, value) == value \in members

(***************************************************************************)
(* pydantic field validation (BaseModel, default configuration: unknown    *)
(* keyword arguments are ignored).                                         *)
(***************************************************************************)
\* a field annotated `str` without default: the keyword must be given and must
\* not be None
RequiredStrValid(v) == v # Missing /\ v # None

\* a field annotated Optional[str] with a default: the default when the keyword
\* is not given, else the value given (None stays None)
OptionalStr(v, default) == IF v = Missing THEN default ELSE v

\* a field annotated List[str]: a list none of whose items is None
StrListValid(l) == l.k = "list" /\ \A i \in DOMAIN l.v : l.v[i] # None

(***************************************************************************)
(* models.py: the entity models.  XValid(d) says that constructing model X *)
(* from the keywords of dict d validates; XOf(d) is the instance built.    *)
(* Raw entities carry a key `unknown_key` that no model declares.          *)
(***************************************************************************)
SymptomValid(s) == RequiredStrValid(s.name)

SymptomOf(s) ==
    [name |-> s.name,
     severity |-> OptionalStr(s.severity, None),
     duration |-> OptionalStr(s.duration, None),
     notes |-> OptionalStr(s.notes, None)]

DiagnosisValid(d) == RequiredStrValid(d.condition)

DiagnosisOf(d) ==
    [condition |-> d.condition,
     icd_code |-> OptionalStr(d.icd_code, None),
     confidence |-> OptionalStr(d.confidence, None),
     notes |-> OptionalStr(d.notes, None)]

MedicationValid(m) ==
    /\ RequiredStrValid(m.drug_name)
    /\ RequiredStrValid(m.dosage)
    /\ RequiredStrValid(m.frequency)

MedicationOf(m) ==
    [drug_name |-> m.drug_name,
     dosage |-> m.dosage,
     frequency |-> m.frequency,
     route |-> OptionalStr(m.route, "oral"),
     duration |-> OptionalStr(m.duration, None),
     instructions |-> OptionalStr(m.instructions, None)]

VitalSignValid(v) == RequiredStrValid(v.type) /\ RequiredStrValid(v.value)

VitalSignOf(v) ==
    [type |-> v.type,
     value |-> v.value,
     time |-> OptionalStr(v.time, None),
     notes |-> OptionalStr(v.notes, None)]

\* severity is annotated `str`: any string validates
InsuranceIssueValid(i) ==
    /\ RequiredStrValid(i.severity)
    /\ RequiredStrValid(i.rule_violated)
    /\ RequiredStrValid(i.missing_evidence)
    /\ RequiredStrValid(i.suggestion)

InsuranceIssueOf(i) ==
    [severity |-> i.severity,
     rule_violated |-> i.rule_violated,
     missing_evidence |-> i.missing_evidence,
     suggestion |-> i.suggestion]

\* mutant of NurseHandoverValid: summary_sbar is not validated
NurseHandoverValidNoSummary(h) ==
    StrListValid(h.critical_alerts) /\ StrListValid(h.pending_actions)

NurseHandoverValid(h) ==
    /\ RequiredStrValid(h.summary_sbar)
    /\ StrListValid(h.critical_alerts)
    /\ StrListValid(h.pending_actions)

NurseHandoverOf(h) ==
    [summary_sbar |-> h.summary_sbar,
     critical_alerts |-> h.critical_alerts.v,
     pending_actions |-> h.pending_actions.v]

PatientSummaryValid(p) ==
    RequiredStrValid(p.translated_content) /\ RequiredStrValid(p.whatsapp_message)

PatientSummaryOf(p) ==
    [translated_content |-> p.translated_content,
     whatsapp_message |-> p.whatsapp_message]

\* every field Optional[str]; the caller passes each keyword explicitly
PatientInfoOf(name, age, gender, bed_number, admission_date) ==
    [name |-> name, age |-> age, gender |-> gender,
     bed_number |-> bed_number, admission_date |-> admission_date]

\* every field but translation is required; emotion is an Emotion member
TranscriptSegmentValid(speaker, timestamp, content, language, language_code) ==
    /\ RequiredStrValid(speaker)
    /\ RequiredStrValid(timestamp)
    /\ RequiredStrValid(content)
    /\ RequiredStrValid(language)
    /\ RequiredStrValid(language_code)

(***************************************************************************)
(* gemini_processor._parse_response, part by part.                         *)
(***************************************************************************)
\* the dict without keys, for each shape of dict the code reads
EmptyPatientInfoData ==
    [name |-> Missing, age |-> Missing, gender |-> Missing,
     bed_number |-> Missing, admission_date |-> Missing]

EmptyDocData ==
    [patient_info |-> MissingKey, chief_complaints |-> MissingKey,
     symptoms |-> MissingKey, vital_signs |-> MissingKey,
     diagnoses |-> MissingKey, medications |-> MissingKey,
     procedures |-> MissingKey, instructions |-> MissingKey,
     follow_up |-> Missing, insurance_audit |-> MissingKey,
     nurse_handover |-> MissingKey, patient_summary |-> MissingKey,
     notes |-> Missing]

\* TranscriptSegment(speaker=seg.get("speaker", "Unknown"), ...) validates
SegmentValid(seg) ==
    /\ EnumValid(Emotion, Get(seg, "emotion", "neutral"))
    /\ TranscriptSegmentValid(Get(seg, "speaker", "Unknown"),
                              Get(seg, "timestamp", "00:00"),
                              Get(seg, "content", ""),
                              Get(seg, "language", "Unknown"),
                              Get(seg, "language_code", "un"))

SegmentOf(seg) ==
    [speaker |-> Get(seg, "speaker", "Unknown"),
     timestamp |-> Get(seg, "timestamp", "00:00"),
     content |-> Get(seg, "content", ""),
     language |-> Get(seg, "language", "Unknown"),
     language_code |-> Get(seg, "language_code", "un"),
     translation |-> Get(seg, "translation", None),
     emotion |-> Get(seg, "emotion", "neutral")]

\* the loop over result_data.get("transcript_segments", []): iterating None
\* raises, and so does the first segment that does not validate
SegmentsValid(rd) ==
    LET l == GetList(rd, "transcript_segments")
    IN  l.k = "list" /\ \A i \in DOMAIN l.v : SegmentValid(l.v[i])

\* mutant of SegmentsOf: each segment is put in front of the earlier ones
SegmentsOfReversed(rd) ==
    LET l == GetList(rd, "transcript_segments").v
    IN  [i \in DOMAIN l |-> SegmentOf(l[Len(l) + 1 - i])]

SegmentsOf(rd) == MapSeq(SegmentOf, GetList(rd, "transcript_segments").v)

\* [Model(**x) for x in doc_data.get(key, [])]
EntityListValid(Valid(_), l) ==
    l.k = "list" /\ \A i \in DOMAIN l.v : Valid(l.v[i])

\* the truth value of a dict: false for None and for the dict without keys
NurseHandoverTruthy(o) ==
    /\ o.k = "obj"
    /\ ~ (/\ o.v.summary_sbar = Missing
          /\ o.v.critical_alerts.k = "missing"
          /\ o.v.pending_actions.k = "missing"
          /\ o.v.unknown_key = Missing)

PatientSummaryTruthy(o) ==
    /\ o.k = "obj"
    /\ ~ (/\ o.v.translated_content = Missing
          /\ o.v.whatsapp_message = Missing
          /\ o.v.unknown_key = Missing)

MedicationTruthy(o) ==
    /\ o.k = "obj"
    /\ \E f \in DOMAIN o.v : o.v[f] # Missing

\* doc_data.get("patient_info", {}) must be a dict for the .get calls on it
PatientInfoValid(doc_data) ==
    GetDict(doc_data, "patient_info", EmptyPatientInfoData).k = "obj"

PatientInfoFrom(doc_data) ==
    LET patient_info_data == GetDict(doc_data, "patient_info", EmptyPatientInfoData).v
    IN  PatientInfoOf(Get(patient_info_data, "name", None),
                      Get(patient_info_data, "age", None),
                      Get(patient_info_data, "gender", None),
                      Get(patient_info_data, "bed_number", None),
                      Get(patient_info_data, "admission_date", None))

NurseHandoverFrom(doc_data) ==
    IF NurseHandoverTruthy(doc_data.nurse_handover)
    THEN Some(NurseHandoverOf(doc_data.nurse_handover.v))
    ELSE NoneValue

PatientSummaryFrom(doc_data) ==
    IF PatientSummaryTruthy(doc_data.patient_summary)
    THEN Some(PatientSummaryOf(doc_data.patient_summary.v))
    ELSE NoneValue

\* MedicalDocumentation(...) is built without an exception
DocumentationValid(rd) ==
    LET d == GetDict(rd, "documentation", EmptyDocData)
    IN  /\ d.k = "obj"
        /\ PatientInfoValid(d.v)
        /\ StrListValid(GetList(d.v, "chief_complaints"))
        /\ EntityListValid(SymptomValid, GetList(d.v, "symptoms"))
        /\ EntityListValid(VitalSignValid, GetList(d.v, "vital_signs"))
        /\ EntityListValid(DiagnosisValid, GetList(d.v, "diagnoses"))
        /\ EntityListValid(MedicationValid, GetList(d.v, "medications"))
        /\ StrListValid(GetList(d.v, "procedures"))
        /\ StrListValid(GetList(d.v, "instructions"))
        /\ EntityListValid(InsuranceIssueValid, GetList(d.v, "insurance_audit"))
        /\ NurseHandoverTruthy(d.v.nurse_handover)
              => NurseHandoverValid(d.v.nurse_handover.v)
        /\ PatientSummaryTruthy(d.v.patient_summary)
              => PatientSummaryValid(d.v.patient_summary.v)

DocumentationOf(rd) ==
    LET doc_data == GetDict(rd, "documentation", EmptyDocData).v
    IN  [patient_info |-> PatientInfoFrom(doc_data),
         chief_complaints |-> GetList(doc_data, "chief_complaints").v,
         symptoms |-> MapSeq(SymptomOf, GetList(doc_data, "symptoms").v),
         vital_signs |-> MapSeq(VitalSignOf, GetList(doc_data, "vital_signs").v),
         diagnoses |-> MapSeq(DiagnosisOf, GetList(doc_data, "diagnoses").v),
         medications |-> MapSeq(MedicationOf, GetList(doc_data, "medications").v),
         procedures |-> GetList(doc_data, "procedures").v,
         instructions |-> GetList(doc_data, "instructions").v,
         follow_up |-> Get(doc_data, "follow_up", None),
         insurance_audit |->
             MapSeq(InsuranceIssueOf, GetList(doc_data, "insurance_audit").v),
         nurse_handover |-> NurseHandoverFrom(doc_data),
         patient_summary |-> PatientSummaryFrom(doc_data),
         notes |-> Get(doc_data, "notes", None)]

\* mutant of TaskIdOf: the synthesized token replaces a supplied id too
TaskIdOfAlwaysFresh(task, fresh) == fresh

\* task.get("task_id", str(uuid.uuid4())[:8]); `fresh` is the token drawn
TaskIdOf(task, fresh) == Get(task, "task_id", fresh)

\* mutant of DueMinutesOf: due_minutes is not handed to NurseTask
DueMinutesOfDropped(task) == NoneValue

\* task.get("due_minutes") into Optional[int]
DueMinutesOf(task) ==
    IF task.due_minutes.k = "int" THEN Some(task.due_minutes.v) ELSE NoneValue

MedicationDetailsOf(task) ==
    IF MedicationTruthy(task.medication_details)
    THEN Some(MedicationOf(task.medication_details.v))
    ELSE NoneValue

\* NurseTask(...) validates
TaskValid(task, fresh) ==
    /\ RequiredStrValid(TaskIdOf(task, fresh))
    /\ RequiredStrValid(Get(task, "description", ""))
    /\ EnumValid(Priority, Get(task, "priority", "MEDIUM"))
    /\ RequiredStrValid(Get(task, "task_type", "other"))
    /\ MedicationTruthy(task.medication_details)
          => MedicationValid(task.medication_details.v)
    /\ EnumValid(TaskStatus, Get(task, "status", "PENDING"))

TaskOf(task, fresh) ==
    [task_id |-> TaskIdOf(task, fresh),
     description |-> Get(task, "description", ""),
     priority |-> Get(task, "priority", "MEDIUM"),
     task_type |-> Get(task, "task_type", "other"),
     due_time |-> Get(task, "due_time", None),
     due_minutes |-> DueMinutesOf(task),
     patient_identifier |-> Get(task, "patient_identifier", None),
     medication_details |-> MedicationDetailsOf(task),
     status |-> Get(task, "status", "PENDING"),
     notes |-> Get(task, "notes", None)]

\* the loop over result_data.get("nurse_tasks", []); uuids[i] is the token
\* uuid4 yields in iteration i
TasksValid(rd, uuids) ==
    LET l == GetList(rd, "nurse_tasks")
    IN  l.k = "list" /\ \A i \in DOMAIN l.v : TaskValid(l.v[i], uuids[i])

TasksOf(rd, uuids) ==
    LET l == GetList(rd, "nurse_tasks").v
    IN  [i \in DOMAIN l |-> TaskOf(l[i], uuids[i])]

\* _parse_response returns (it raises otherwise)
ParseResponseReturns(rd, uuids) ==
    /\ SegmentsValid(rd)
    /\ DocumentationValid(rd)
    /\ TasksValid(rd, uuids)
    /\ RequiredStrValid(Get(rd, "summary", ""))

\* the ProcessingResult it returns
_parse_response(rd, elapsed, uuids) ==
    [summary |-> Get(rd, "summary", ""),
     transcript_segments |-> SegmentsOf(rd),
     documentation |-> DocumentationOf(rd),
     nurse_tasks |-> TasksOf(rd, uuids),
     processing_time |-> elapsed]

(***************************************************************************)
(* The raw objects the model feeds to _parse_response.  Each kind of dict  *)
(* has a fully populated, schema-conformant instance and the dict without  *)
(* keys; the inputs are these with one key changed to any of: not in the   *)
(* dict, null, another value, or (for enum keys) a string outside the      *)
(* closed set or differing from a member only by case.                     *)
(***************************************************************************)
\* `base` and `base` with one key changed to a value of dom[key]
Variants(base, dom) ==
    {base} \cup UNION {{[base EXCEPT ![f] = x] : x \in dom[f]} : f \in DOMAIN dom}

SeqsUpTo(S, n) == UNION {[1..len -> S] : len \in 0..n}

\* lists up to MaxItems long of base items, at most one item a variant
Lists(Base, Var) ==
    LET plain == SeqsUpTo(Base, MaxItems)
    IN  plain \cup UNION {{[l EXCEPT ![i] = x] : i \in DOMAIN l, x \in Var} : l \in plain}

\* list keys: not in the dict, null, or one of `lists`
ListKey(lists) == {MissingKey, Null} \cup {List(l) : l \in lists}

StrKey == {Missing, None, "other", ""}
StrLists == SeqsUpTo({"a", "b"}, MaxItems) \cup {<<None>>, <<"a", None>>}

FullSegment ==
    [speaker |-> "Doctor", timestamp |-> "00:05", content |-> "vanakkam",
     language |-> "Tamil", language_code |-> "ta", translation |-> "hello",
     emotion |-> "calm", unknown_key |-> Missing]

EmptySegment ==
    [speaker |-> Missing, timestamp |-> Missing, content |-> Missing,
     language |-> Missing, language_code |-> Missing, translation |-> Missing,
     emotion |-> Missing, unknown_key |-> Missing]

SegmentKeys ==
    [speaker |-> StrKey, timestamp |-> StrKey, content |-> StrKey,
     language |-> StrKey, language_code |-> StrKey, translation |-> StrKey,
     emotion |-> {Missing, None, "happy", "Happy", "furious"},
     unknown_key |-> {"x"}]

RawSegments == Variants(FullSegment, SegmentKeys) \cup Variants(EmptySegment, SegmentKeys)

FullSymptom ==
    [name |-> "fever", severity |-> "mild", duration |-> "2 days",
     notes |-> "evening", unknown_key |-> Missing]

RawSymptoms ==
    Variants(FullSymptom,
             [name |-> StrKey, severity |-> StrKey, duration |-> StrKey,
              notes |-> StrKey, unknown_key |-> {"x"}])

FullVitalSign ==
    [type |-> "BP", value |-> "120/80", time |-> "09:00", notes |-> "stable",
     unknown_key |-> Missing]

RawVitalSigns ==
    Variants(FullVitalSign,
             [type |-> StrKey, value |-> StrKey, time |-> StrKey,
              notes |-> StrKey, unknown_key |-> {"x"}])

FullDiagnosis ==
    [condition |-> "dengue", icd_code |-> "A90", confidence |-> "suspected",
     notes |-> "await platelets", unknown_key |-> Missing]

RawDiagnoses ==
    Variants(FullDiagnosis,
             [condition |-> StrKey, icd_code |-> StrKey, confidence |-> StrKey,
              notes |-> StrKey, unknown_key |-> {"x"}])

FullMedication ==
    [drug_name |-> "paracetamol", dosage |-> "500mg", frequency |-> "twice daily",
     route |-> "IV", duration |-> "5 days", instructions |-> "after food",
     unknown_key |-> Missing]

EmptyMedication ==
    [drug_name |-> Missing, dosage |-> Missing, frequency |-> Missing,
     route |-> Missing, duration |-> Missing, instructions |-> Missing,
     unknown_key |-> Missing]

MedicationKeys ==
    [drug_name |-> StrKey, dosage |-> StrKey, frequency |-> StrKey,
     route |-> StrKey, duration |-> StrKey, instructions |-> StrKey,
     unknown_key |-> {"x"}]

RawMedications == Variants(FullMedication, MedicationKeys)

\* the schema of a task's medication_details has no duration and instructions
FullTaskMedication ==
    [FullMedication EXCEPT !.duration = Missing, !.instructions = Missing]

RawTaskMedications ==
    Variants(FullTaskMedication, MedicationKeys)
    \cup Variants(EmptyMedication, [unknown_key |-> {"x"}])

FullInsuranceIssue ==
    [severity |-> "HIGH", rule_violated |-> "dengue needs platelet count",
     missing_evidence |-> "platelet count", suggestion |-> "order CBC",
     unknown_key |-> Missing]

RawInsuranceIssues ==
    Variants(FullInsuranceIssue,
             [severity |-> {Missing, None, "LOW", "high", "CRITICAL", ""},
              rule_violated |-> StrKey, missing_evidence |-> StrKey,
              suggestion |-> StrKey, unknown_key |-> {"x"}])

FullNurseHandover ==
    [summary_sbar |-> "S: stable", critical_alerts |-> List(<<"a">>),
     pending_actions |-> List(<<"a", "b">>), unknown_key |-> Missing]

EmptyNurseHandover ==
    [summary_sbar |-> Missing, critical_alerts |-> MissingKey,
     pending_actions |-> MissingKey, unknown_key |-> Missing]

RawNurseHandovers ==
    Variants(FullNurseHandover,
             [summary_sbar |-> StrKey, critical_alerts |-> ListKey(StrLists),
              pending_actions |-> ListKey(StrLists), unknown_key |-> {"x"}])
    \cup Variants(EmptyNurseHandover,
                  [summary_sbar |-> {"S: stable"}, unknown_key |-> {"x"}])

FullPatientSummary ==
    [translated_content |-> "ungal udalnilai", whatsapp_message |-> "Hello",
     unknown_key |-> Missing]

EmptyPatientSummary ==
    [translated_content |-> Missing, whatsapp_message |-> Missing,
     unknown_key |-> Missing]

RawPatientSummaries ==
    Variants(FullPatientSummary,
             [translated_content |-> StrKey, whatsapp_message |-> StrKey,
              unknown_key |-> {"x"}])
    \cup Variants(EmptyPatientSummary,
                  [whatsapp_message |-> {"Hello"}, unknown_key |-> {"x"}])

FullPatientInfoData ==
    [name |-> "Ravi", age |-> "45", gender |-> "M", bed_number |-> "12",
     admission_date |-> "2024-01-05"]

RawPatientInfos ==
    Variants(FullPatientInfoData,
             [name |-> StrKey, age |-> StrKey, gender |-> StrKey,
              bed_number |-> StrKey, admission_date |-> StrKey])
    \cup Variants(EmptyPatientInfoData, [name |-> {None, "Ravi"}])

\* object keys: not in the dict, null, or one of `dicts`
ObjKey(dicts) == {MissingKey, Null} \cup {Obj(d) : d \in dicts}

FullDocData ==
    [patient_info |-> Obj(FullPatientInfoData),
     chief_complaints |-> List(<<"a", "b">>),
     symptoms |-> List(<<FullSymptom>>),
     vital_signs |-> List(<<FullVitalSign>>),
     diagnoses |-> List(<<FullDiagnosis>>),
     medications |-> List(<<FullMedication>>),
     procedures |-> List(<<"a">>),
     instructions |-> List(<<"b">>),
     follow_up |-> "in 2 weeks",
     insurance_audit |-> List(<<FullInsuranceIssue>>),
     nurse_handover |-> Obj(FullNurseHandover),
     patient_summary |-> Obj(FullPatientSummary),
     notes |-> "none"]

DocKeys ==
    [patient_info |-> ObjKey(RawPatientInfos),
     chief_complaints |-> ListKey(StrLists),
     symptoms |-> ListKey(Lists({FullSymptom}, RawSymptoms)),
     vital_signs |-> ListKey(Lists({FullVitalSign}, RawVitalSigns)),
     diagnoses |-> ListKey(Lists({FullDiagnosis}, RawDiagnoses)),
     medications |-> ListKey(Lists({FullMedication}, RawMedications)),
     procedures |-> ListKey(StrLists),
     instructions |-> ListKey(StrLists),
     follow_up |-> StrKey,
     insurance_audit |-> ListKey(Lists({FullInsuranceIssue}, RawInsuranceIssues)),
     nurse_handover |-> ObjKey(RawNurseHandovers),
     patient_summary |-> ObjKey(RawPatientSummaries),
     notes |-> StrKey]

RawDocs == Variants(FullDocData, DocKeys) \cup Variants(EmptyDocData, DocKeys)

FullTask ==
    [task_id |-> "T1", description |-> "Give paracetamol", priority |-> "HIGH",
     task_type |-> "medication", due_time |-> "in 2 hours",
     due_minutes |-> IntValue(120), patient_identifier |-> "bed 12",
     medication_details |-> Obj(FullTaskMedication), status |-> "IN_PROGRESS",
     notes |-> "after food", unknown_key |-> Missing]

EmptyTask ==
    [task_id |-> Missing, description |-> Missing, priority |-> Missing,
     task_type |-> Missing, due_time |-> Missing, due_minutes |-> MissingKey,
     patient_identifier |-> Missing, medication_details |-> MissingKey,
     status |-> Missing, notes |-> Missing, unknown_key |-> Missing]

TaskKeys ==
    [task_id |-> {Missing, None, "T2", ""},
     description |-> StrKey,
     priority |-> {Missing, None, "LOW", "high", "URGENT"},
     task_type |-> StrKey,
     due_time |-> StrKey,
     due_minutes |-> {MissingKey, Null, IntValue(30)},
     patient_identifier |-> StrKey,
     medication_details |-> ObjKey(RawTaskMedications),
     status |-> {Missing, None, "COMPLETED", "completed", "DONE"},
     notes |-> StrKey,
     unknown_key |-> {"x"}]

RawTasks == Variants(FullTask, TaskKeys) \cup Variants(EmptyTask, TaskKeys)

FullResultData ==
    [summary |-> "Routine checkup",
     transcript_segments |-> List(<<FullSegment, EmptySegment>>),
     documentation |-> Obj(FullDocData),
     nurse_tasks |-> List(<<FullTask, EmptyTask>>)]

EmptyResultData ==
    [summary |-> Missing, transcript_segments |-> MissingKey,
     documentation |-> MissingKey, nurse_tasks |-> MissingKey]

ResultDataKeys ==
    [summary |-> StrKey,
     transcript_segments |-> ListKey(Lists({FullSegment, EmptySegment}, RawSegments)),
     documentation |-> ObjKey(RawDocs),
     nurse_tasks |-> ListKey(Lists({FullTask, EmptyTask}, RawTasks))]

RawInputs ==
    Variants(FullResultData, ResultDataKeys) \cup Variants(EmptyResultData, ResultDataKeys)

\* the first 8 characters of str(uuid.uuid4()): two draws may agree
Uuid8 == {"1f0e2d3c", "9a8b7c6d", "5e4f3a2b"}

\* the iterations of the loop over the tasks, one uuid4 draw each
TaskIndexes(rd) ==
    IF rd.nurse_tasks.k = "list" THEN DOMAIN rd.nurse_tasks.v ELSE {}

\* elapsed seconds handed to _parse_response
Elapsed == {1, 2}

NoResult == "<no result>"

\* no second call was made and nothing was serialized
NotCalled == [pc |-> "none"]
NoDump == [k |-> "none"]
CallsUnused == second = NotCalled /\ dumped = NoDump

\* the service is not part of the behaviour
SvcUnused ==
    /\ api_key = FALSE /\ client = 0 /\ constructed = 0 /\ running = 0
    /\ req = <<>> /\ remote = <<>>

Init ==
    /\ result_data \in RawInputs
    /\ processing_time \in Elapsed
    /\ pc = "call"
    /\ result = NoResult
    /\ CallsUnused
    /\ SvcUnused

\* one call of _parse_response(result_data, processing_time)
Normalize ==
    /\ pc = "call"
    /\ \E uuids \in [TaskIndexes(result_data) -> Uuid8] :
          IF ParseResponseReturns(result_data, uuids)
          THEN /\ pc' = "returned"
               /\ result' = _parse_response(result_data, processing_time, uuids)
          ELSE /\ pc' = "raised"
               /\ result' = NoResult
    /\ UNCHANGED <<result_data, processing_time, callVars, svcVars>>

Next == Normalize

Spec == Init /\ [][Next]_vars

(***************************************************************************)
(* Vocabulary of the properties: what a raw object carries, read off the   *)
(* raw object itself.                                                      *)
(***************************************************************************)
\* the items of a list key, none when the key holds no list
RawItems(x) == IF x.k = "list" THEN x.v ELSE <<>>

\* the raw documentation dict, the dict without keys when there is none
DocData ==
    IF result_data.documentation.k = "obj" THEN result_data.documentation.v
    ELSE EmptyDocData

RawSegs == RawItems(result_data.transcript_segments)
RawTaskItems == RawItems(result_data.nurse_tasks)

DocListKeys ==
    {"chief_complaints", "symptoms", "vital_signs", "diagnoses", "medications",
     "procedures", "instructions", "insurance_audit"}

\* a key that is not in the dict or holds a string
NotNull(x) == x # None
\* a key that holds a string
Given(x) == x # Missing /\ x # None

\* a list key that is not in the dict or holds a list whose items satisfy P
ListOf(x, P(_)) ==
    x.k = "missing" \/ (x.k = "list" /\ \A i \in DOMAIN x.v : P(x.v[i]))

\* an enum key that is not in the dict or holds a member; any value when
\* `anyEnum`
EnumKey(x, members, anyEnum) == anyEnum \/ x = Missing \/ x \in members

\* a required key of an entity: a string; it may also be left out when
\* `mayLack`
RequiredKey(x, mayLack) == NotNull(x) /\ (mayLack \/ x # Missing)

MedicationConforms(m, mayLack) ==
    /\ RequiredKey(m.drug_name, mayLack)
    /\ RequiredKey(m.dosage, mayLack)
    /\ RequiredKey(m.frequency, mayLack)

\* The raw object follows the response schema except that keys may be left
\* out: every key the code reads with a default may be missing, every nullable
\* key may be null, and the keys the entity models require are given.  With
\* `anyEnum` the enum keys may hold any value; with `mayLack` the required keys
\* of symptoms, vital signs, diagnoses, medications and insurance issues may be
\* left out too.
Conforms(anyEnum, mayLack) ==
    /\ NotNull(result_data.summary)
    /\ result_data.transcript_segments.k \in {"missing", "list"}
    /\ \A i \in DOMAIN RawSegs :
          /\ NotNull(RawSegs[i].speaker) /\ NotNull(RawSegs[i].timestamp)
          /\ NotNull(RawSegs[i].content) /\ NotNull(RawSegs[i].language)
          /\ NotNull(RawSegs[i].language_code)
          /\ EnumKey(RawSegs[i].emotion, Emotion, anyEnum)
    /\ result_data.documentation.k \in {"missing", "obj"}
    /\ DocData.patient_info.k \in {"missing", "obj"}
    /\ ListOf(DocData.chief_complaints, NotNull)
    /\ ListOf(DocData.procedures, NotNull)
    /\ ListOf(DocData.instructions, NotNull)
    /\ ListOf(DocData.symptoms, LAMBDA x : RequiredKey(x.name, mayLack))
    /\ ListOf(DocData.vital_signs,
              LAMBDA x : RequiredKey(x.type, mayLack) /\ RequiredKey(x.value, mayLack))
    /\ ListOf(DocData.diagnoses, LAMBDA x : RequiredKey(x.condition, mayLack))
    /\ ListOf(DocData.medications, LAMBDA x : MedicationConforms(x, mayLack))
    /\ ListOf(DocData.insurance_audit,
              LAMBDA x : /\ RequiredKey(x.severity, mayLack)
                         /\ RequiredKey(x.rule_violated, mayLack)
                         /\ RequiredKey(x.missing_evidence, mayLack)
                         /\ RequiredKey(x.suggestion, mayLack))
    /\ DocData.nurse_handover.k = "obj" =>
          LET h == DocData.nurse_handover.v
          IN  /\ Given(h.summary_sbar)
              /\ h.critical_alerts.k = "list" /\ ListOf(h.critical_alerts, NotNull)
              /\ h.pending_actions.k = "list" /\ ListOf(h.pending_actions, NotNull)
    /\ DocData.patient_summary.k = "obj" =>
          /\ Given(DocData.patient_summary.v.translated_content)
          /\ Given(DocData.patient_summary.v.whatsapp_message)
    /\ result_data.nurse_tasks.k \in {"missing", "list"}
    /\ \A i \in DOMAIN RawTaskItems :
          LET t == RawTaskItems[i]
          IN  /\ NotNull(t.task_id) /\ NotNull(t.description) /\ NotNull(t.task_type)
              /\ EnumKey(t.priority, Priority, anyEnum)
              /\ EnumKey(t.status, TaskStatus, anyEnum)
              /\ t.medication_details.k = "obj" =>
                    MedicationConforms(t.medication_details.v, FALSE)

\* the raw medication of task i, when the task carries one that is built
TaskHasMedication(i) ==
    /\ RawTaskItems[i].medication_details.k = "obj"
    /\ RawTaskItems[i].medication_details.v # EmptyMedication

(***************************************************************************)
(* Properties of _parse_response.                                          *)
(***************************************************************************)
\* C1: for every raw object that leaves out any of the keys that may be left
\* out (and is otherwise schema-conformant), _parse_response returns, and the
\* result carries the defaults: a missing list key gives the empty list, a
\* missing emotion gives neutral, a missing priority MEDIUM, a missing status
\* PENDING and a missing route oral.
C1_DefaultsForMissing ==
    (pc # "call" /\ Conforms(FALSE, FALSE)) =>
        /\ pc = "returned"
        /\ result_data.transcript_segments.k = "missing"
              => result.transcript_segments = <<>>
        /\ result_data.nurse_tasks.k = "missing" => result.nurse_tasks = <<>>
        /\ \A f \in DocListKeys :
              DocData[f].k = "missing" => result.documentation[f] = <<>>
        /\ \A i \in DOMAIN RawSegs :
              RawSegs[i].emotion = Missing
                  => result.transcript_segments[i].emotion = "neutral"
        /\ \A i \in DOMAIN RawTaskItems :
              /\ RawTaskItems[i].priority = Missing
                    => result.nurse_tasks[i].priority = "MEDIUM"
              /\ RawTaskItems[i].status = Missing
                    => result.nurse_tasks[i].status = "PENDING"
              /\ (TaskHasMedication(i)
                     /\ RawTaskItems[i].medication_details.v.route = Missing)
                    => result.nurse_tasks[i].medication_details.v.route = "oral"
        /\ \A i \in DOMAIN RawItems(DocData.medications) :
              RawItems(DocData.medications)[i].route = Missing
                  => result.documentation.medications[i].route = "oral"

\* C1 witness: a result was returned for an object without documentation that
\* holds a segment without emotion and a task without priority and status
C1_Witness ==
    /\ pc = "returned"
    /\ result_data.documentation.k = "missing"
    /\ \E i \in DOMAIN RawSegs : RawSegs[i].emotion = Missing
    /\ \E i \in DOMAIN RawTaskItems :
          RawTaskItems[i].priority = Missing /\ RawTaskItems[i].status = Missing

\* C1 witness of the route default: a returned medication whose raw entry had
\* no route key
C1_RouteWitness ==
    /\ pc = "returned"
    /\ \E i \in DOMAIN RawItems(DocData.medications) :
          RawItems(DocData.medications)[i].route = Missing

\* C2: for every enum key (segment emotion, task priority, task status) whose
\* raw value is missing or is not an exact member of the closed set,
\* _parse_response substitutes the default (neutral, MEDIUM, PENDING) and
\* still returns a result; it does not raise.
C2_EnumFallback ==
    (pc # "call" /\ Conforms(TRUE, FALSE)) =>
        /\ pc = "returned"
        /\ \A i \in DOMAIN RawSegs :
              RawSegs[i].emotion \notin Emotion
                  => result.transcript_segments[i].emotion = "neutral"
        /\ \A i \in DOMAIN RawTaskItems :
              /\ RawTaskItems[i].priority \notin Priority
                    => result.nurse_tasks[i].priority = "MEDIUM"
              /\ RawTaskItems[i].status \notin TaskStatus
                    => result.nurse_tasks[i].status = "PENDING"

\* C3: a single malformed entity never makes _parse_response fail: when one
\* symptom, vital sign, diagnosis, medication, insurance issue or segment lacks
\* a required key or carries an unknown key, a result is still returned.
C3_MalformedEntityTolerated ==
    (pc # "call" /\ Conforms(FALSE, TRUE)) => pc = "returned"

\* C4: in every returned result every enum field holds a member of its closed
\* set: segment emotion, task priority, task status and the severity of each
\* insurance_audit entry (HIGH, MEDIUM or LOW).
C4_EnumsClosed ==
    pc = "returned" =>
        /\ \A i \in DOMAIN result.transcript_segments :
              result.transcript_segments[i].emotion \in Emotion
        /\ \A i \in DOMAIN result.nurse_tasks :
              /\ result.nurse_tasks[i].priority \in Priority
              /\ result.nurse_tasks[i].status \in TaskStatus
        /\ \A i \in DOMAIN result.documentation.insurance_audit :
              result.documentation.insurance_audit[i].severity
                  \in {"HIGH", "MEDIUM", "LOW"}

\* C5: every raw task without task_id gets a freshly synthesized, non-empty
\* task_id, and no task of a returned result has an empty or null task_id.
C5_TaskIdNeverEmpty ==
    pc = "returned" =>
        \A i \in DOMAIN result.nurse_tasks :
            /\ RawTaskItems[i].task_id = Missing
                  => result.nurse_tasks[i].task_id \in Uuid8
            /\ result.nurse_tasks[i].task_id \notin {"", None, Missing}

\* C6: in every returned result the task_id values of nurse_tasks are pairwise
\* distinct, whether supplied, synthesized or a mix of both.
C6_TaskIdsDistinct ==
    pc = "returned" =>
        \A i, j \in DOMAIN result.nurse_tasks :
            i # j => result.nurse_tasks[i].task_id # result.nurse_tasks[j].task_id

\* a string field of a model that holds a string
Populated(x) == x # None /\ x # Missing
PopulatedList(l) == \A i \in DOMAIN l : Populated(l[i])

\* C7: for nurse_handover, patient_summary and a task's medication_details:
\* when the raw key is missing or null the field of the result is None, and
\* when the field is not None all its jointly required members are populated;
\* no returned result holds a partially-null object.
C7_CompositeAllOrNothing ==
    pc = "returned" =>
        LET doc == result.documentation
        IN  /\ DocData.nurse_handover.k \in {"missing", "null"}
                  => doc.nurse_handover.k = "none"
            /\ DocData.patient_summary.k \in {"missing", "null"}
                  => doc.patient_summary.k = "none"
            /\ doc.nurse_handover.k = "some" =>
                  /\ Populated(doc.nurse_handover.v.summary_sbar)
                  /\ PopulatedList(doc.nurse_handover.v.critical_alerts)
                  /\ PopulatedList(doc.nurse_handover.v.pending_actions)
            /\ doc.patient_summary.k = "some" =>
                  /\ Populated(doc.patient_summary.v.translated_content)
                  /\ Populated(doc.patient_summary.v.whatsapp_message)
            /\ \A i \in DOMAIN result.nurse_tasks :
                  LET med == result.nurse_tasks[i].medication_details
                  IN  /\ RawTaskItems[i].medication_details.k \in {"missing", "null"}
                            => med.k = "none"
                      /\ med.k = "some" =>
                            /\ Populated(med.v.drug_name)
                            /\ Populated(med.v.dosage)
                            /\ Populated(med.v.frequency)

\* C7 witness: a returned result that holds a nurse handover and a task
\* medication, built from a raw object whose patient_summary is null
C7_Witness ==
    /\ pc = "returned"
    /\ DocData.patient_summary.k = "null"
    /\ result.documentation.patient_summary.k = "none"
    /\ result.documentation.nurse_handover.k = "some"
    /\ \E i \in DOMAIN result.nurse_tasks :
          result.nurse_tasks[i].medication_details.k = "some"

\* the raw object has no patient_info: no documentation key, no patient_info
\* key, or the empty object
NoPatientInfo ==
    \/ result_data.documentation.k = "missing"
    \/ /\ result_data.documentation.k = "obj"
       /\ \/ DocData.patient_info.k = "missing"
          \/ DocData.patient_info = Obj(EmptyPatientInfoData)

\* C8: whenever the raw object has no patient_info, _parse_response returns
\* (the rest of the object being well-formed) and the result's
\* documentation.patient_info is a PatientInfo whose five fields are all None.
C8_PatientInfoAllNull ==
    (pc # "call" /\ NoPatientInfo) =>
        /\ Conforms(FALSE, FALSE) => pc = "returned"
        /\ pc = "returned" =>
              result.documentation.patient_info =
                  [name |-> None, age |-> None, gender |-> None,
                   bed_number |-> None, admission_date |-> None]

\* C8 witness: a result returned for a documentation object that has symptoms
\* and no patient_info key
C8_Witness ==
    /\ pc = "returned"
    /\ result_data.documentation.k = "obj"
    /\ DocData.patient_info.k = "missing"
    /\ result.documentation.symptoms # <<>>

\* C9: every Medication of a returned result (in documentation.medications
\* and in a task's medication_details) whose raw entry carried no usable route
\* (no route key, or null) has route "oral"; the route is never left null.
C9_RouteDefaultsToOral ==
    pc = "returned" =>
        /\ \A i \in DOMAIN RawItems(DocData.medications) :
              RawItems(DocData.medications)[i].route \in {Missing, None}
                  => result.documentation.medications[i].route = "oral"
        /\ \A i \in DOMAIN RawTaskItems :
              (TaskHasMedication(i)
                  /\ RawTaskItems[i].medication_details.v.route \in {Missing, None})
                  => result.nurse_tasks[i].medication_details.v.route = "oral"

\* the value a segment key takes: the sentinel when the key is missing
OrSentinel(x, sentinel) == IF x = Missing THEN sentinel ELSE x

\* C10: a segment that lacks speaker, timestamp or content never makes
\* _parse_response raise, and it gets the sentinel ("Unknown", "00:00", "") for
\* that key only; the returned transcript holds one segment per raw segment,
\* in the raw order, every other key as given.
C10_SegmentSentinels ==
    /\ (pc # "call" /\ Conforms(FALSE, FALSE)) => pc = "returned"
    /\ pc = "returned" =>
          /\ Len(result.transcript_segments) = Len(RawSegs)
          /\ \A i \in DOMAIN RawSegs :
                result.transcript_segments[i] =
                    [speaker |-> OrSentinel(RawSegs[i].speaker, "Unknown"),
                     timestamp |-> OrSentinel(RawSegs[i].timestamp, "00:00"),
                     content |-> OrSentinel(RawSegs[i].content, ""),
                     language |-> OrSentinel(RawSegs[i].language, "Unknown"),
                     language_code |-> OrSentinel(RawSegs[i].language_code, "un"),
                     translation |-> OrSentinel(RawSegs[i].translation, None),
                     emotion |-> OrSentinel(RawSegs[i].emotion, "neutral")]

\* C10 witness: a returned transcript of at least two segments, one raw
\* segment lacking content and another one carrying all three scalars
C10_Witness ==
    /\ pc = "returned"
    /\ \E i, j \in DOMAIN RawSegs :
          /\ i # j
          /\ RawSegs[i].content = Missing /\ RawSegs[i].speaker # Missing
          /\ Given(RawSegs[j].speaker) /\ Given(RawSegs[j].timestamp)
          /\ Given(RawSegs[j].content)

(***************************************************************************)
(* main.py: result.model_dump(), the dict the endpoints answer with.  An   *)
(* Optional field that is None is dumped as null, a nested model as a      *)
(* dict, a list as a list.                                                 *)
(***************************************************************************)
DumpOptionalInt(x) == IF x.k = "some" THEN IntValue(x.v) ELSE Null

DumpNurseHandover(x) ==
    IF x.k = "some"
    THEN Obj([summary_sbar |-> x.v.summary_sbar,
              critical_alerts |-> List(x.v.critical_alerts),
              pending_actions |-> List(x.v.pending_actions)])
    ELSE Null

DumpOptionalModel(x) == IF x.k = "some" THEN Obj(x.v) ELSE Null

DumpDocumentation(doc) ==
    [patient_info |-> Obj(doc.patient_info),
     chief_complaints |-> List(doc.chief_complaints),
     symptoms |-> List(doc.symptoms),
     vital_signs |-> List(doc.vital_signs),
     diagnoses |-> List(doc.diagnoses),
     medications |-> List(doc.medications),
     procedures |-> List(doc.procedures),
     instructions |-> List(doc.instructions),
     follow_up |-> doc.follow_up,
     insurance_audit |-> List(doc.insurance_audit),
     nurse_handover |-> DumpNurseHandover(doc.nurse_handover),
     patient_summary |-> DumpOptionalModel(doc.patient_summary),
     notes |-> doc.notes]

DumpTask(t) ==
    [task_id |-> t.task_id, description |-> t.description,
     priority |-> t.priority, task_type |-> t.task_type,
     due_time |-> t.due_time, due_minutes |-> DumpOptionalInt(t.due_minutes),
     patient_identifier |-> t.patient_identifier,
     medication_details |-> DumpOptionalModel(t.medication_details),
     status |-> t.status, notes |-> t.notes]

model_dump(res) ==
    [summary |-> res.summary,
     transcript_segments |-> List(res.transcript_segments),
     documentation |-> Obj(DumpDocumentation(res.documentation)),
     nurse_tasks |-> List([i \in DOMAIN res.nurse_tasks |-> DumpTask(res.nurse_tasks[i])]),
     processing_time |-> res.processing_time]

(***************************************************************************)
(* Calls of _parse_response on fully populated, schema-conformant objects  *)
(* and on objects whose tasks carry or omit task_id: the first call, a     *)
(* second call on the same arguments, and the serialization of the first   *)
(* result.                                                                 *)
(***************************************************************************)
ConformantSegments ==
    Variants(FullSegment,
             [speaker |-> {"Nurse", ""}, timestamp |-> {"01:10"}, content |-> {"ok"},
              language |-> {"English"}, language_code |-> {"en"},
              translation |-> {None, "other"}, emotion |-> Emotion])

NullableStr == {None, "other", ""}

ConformantSymptoms ==
    Variants(FullSymptom,
             [name |-> {"cough"}, severity |-> NullableStr, duration |-> NullableStr,
              notes |-> NullableStr])

ConformantVitalSigns ==
    Variants(FullVitalSign,
             [type |-> {"Pulse"}, value |-> {"72"}, time |-> NullableStr,
              notes |-> NullableStr])

ConformantDiagnoses ==
    Variants(FullDiagnosis,
             [condition |-> {"malaria"}, icd_code |-> NullableStr,
              confidence |-> NullableStr, notes |-> NullableStr])

ConformantMedications ==
    Variants(FullMedication,
             [drug_name |-> {"ibuprofen"}, dosage |-> {"200mg"}, frequency |-> {"daily"},
              route |-> {None, "oral", "IM"}, duration |-> NullableStr,
              instructions |-> NullableStr])

ConformantTaskMedications ==
    Variants(FullTaskMedication,
             [drug_name |-> {"ibuprofen"}, dosage |-> {"200mg"}, frequency |-> {"daily"},
              route |-> {None, "oral", "IM"}])

ConformantInsuranceIssues ==
    Variants(FullInsuranceIssue,
             [severity |-> {"HIGH", "MEDIUM", "LOW"}, rule_violated |-> {"other"},
              missing_evidence |-> {"other"}, suggestion |-> {"other"}])

ConformantStrLists == SeqsUpTo({"a", "b"}, MaxItems)

ConformantNurseHandovers ==
    Variants(FullNurseHandover,
             [summary_sbar |-> {"", "other"},
              critical_alerts |-> {List(l) : l \in ConformantStrLists},
              pending_actions |-> {List(l) : l \in ConformantStrLists}])

ConformantPatientSummaries ==
    Variants(FullPatientSummary,
             [translated_content |-> {"", "other"}, whatsapp_message |-> {"", "other"}])

ConformantPatientInfos ==
    Variants(FullPatientInfoData,
             [name |-> NullableStr, age |-> NullableStr, gender |-> NullableStr,
              bed_number |-> NullableStr, admission_date |-> NullableStr])

\* the lists of a conformant list key
ListValues(lists) == {List(l) : l \in lists}

ConformantDocs ==
    Variants(FullDocData,
             [patient_info |-> {Obj(d) : d \in ConformantPatientInfos},
              chief_complaints |-> ListValues(ConformantStrLists),
              symptoms |-> ListValues(Lists({FullSymptom}, ConformantSymptoms)),
              vital_signs |-> ListValues(Lists({FullVitalSign}, ConformantVitalSigns)),
              diagnoses |-> ListValues(Lists({FullDiagnosis}, ConformantDiagnoses)),
              medications |-> ListValues(Lists({FullMedication}, ConformantMedications)),
              procedures |-> ListValues(ConformantStrLists),
              instructions |-> ListValues(ConformantStrLists),
              follow_up |-> NullableStr,
              insurance_audit |->
                  ListValues(Lists({FullInsuranceIssue}, ConformantInsuranceIssues)),
              nurse_handover |-> {Null} \cup {Obj(d) : d \in ConformantNurseHandovers},
              patient_summary |-> {Null} \cup {Obj(d) : d \in ConformantPatientSummaries},
              notes |-> NullableStr])

ConformantTasks ==
    Variants(FullTask,
             [task_id |-> {"T2"}, description |-> {"", "other"}, priority |-> Priority,
              task_type |-> {"vitals"}, due_time |-> NullableStr,
              due_minutes |-> {Null, IntValue(0), IntValue(30)},
              patient_identifier |-> NullableStr,
              medication_details |->
                  {Null} \cup {Obj(d) : d \in ConformantTaskMedications},
              status |-> TaskStatus, notes |-> NullableStr])

FullConformantData ==
    [summary |-> "Routine checkup",
     transcript_segments |-> List(<<FullSegment>>),
     documentation |-> Obj(FullDocData),
     nurse_tasks |-> List(<<FullTask>>)]

ConformantInputs ==
    Variants(FullConformantData,
             [summary |-> {"", "other"},
              transcript_segments |->
                  ListValues(Lists({FullSegment}, ConformantSegments)),
              documentation |-> {Obj(d) : d \in ConformantDocs},
              nurse_tasks |-> ListValues(Lists({FullTask}, ConformantTasks))])

\* objects whose tasks carry a task_id, omit it, or carry null
TaskIdInputs ==
    Variants(FullResultData,
             [nurse_tasks |->
                 ListValues(SeqsUpTo({FullTask, EmptyTask,
                                      [FullTask EXCEPT !.task_id = "T2"],
                                      [EmptyTask EXCEPT !.task_id = None]},
                                     MaxItems))])
    \cup Variants(EmptyResultData, [documentation |-> {Null}])

CallInputs == ConformantInputs \cup TaskIdInputs

InitCalls ==
    /\ result_data \in CallInputs
    /\ processing_time \in Elapsed
    /\ pc = "call"
    /\ result = NoResult
    /\ CallsUnused
    /\ SvcUnused

\* a second call of _parse_response(result_data, processing_time)
NormalizeAgain ==
    /\ pc \in {"returned", "raised"}
    /\ second = NotCalled
    /\ \E uuids \in [TaskIndexes(result_data) -> Uuid8] :
          second' =
              IF ParseResponseReturns(result_data, uuids)
              THEN [pc |-> "returned",
                    result |-> _parse_response(result_data, processing_time, uuids)]
              ELSE [pc |-> "raised"]
    /\ UNCHANGED <<mapVars, dumped, svcVars>>

\* result.model_dump() on the result of the first call
Serialize ==
    /\ pc = "returned"
    /\ dumped = NoDump
    /\ dumped' = Obj(model_dump(result))
    /\ UNCHANGED <<mapVars, second, svcVars>>

NextCalls == Normalize \/ NormalizeAgain \/ Serialize

SpecCalls == InitCalls /\ [][NextCalls]_vars

(***************************************************************************)
(* Properties of repeated calls and of serialization.                      *)
(***************************************************************************)
\* every key of `keys` is in the dict
AllGiven(d, keys) == \A f \in keys : d[f] # Missing

\* a list key holds a list and every item carries every key of `keys`
PopulatedItems(x, keys) ==
    x.k = "list" /\ \A i \in DOMAIN x.v : AllGiven(x.v[i], keys)

SegmentFields ==
    {"speaker", "timestamp", "content", "language", "language_code", "translation",
     "emotion"}
SymptomFields == {"name", "severity", "duration", "notes"}
VitalSignFields == {"type", "value", "time", "notes"}
DiagnosisFields == {"condition", "icd_code", "confidence", "notes"}
MedicationFields ==
    {"drug_name", "dosage", "frequency", "route", "duration", "instructions"}
TaskMedicationFields == {"drug_name", "dosage", "frequency", "route"}
InsuranceIssueFields == {"severity", "rule_violated", "missing_evidence", "suggestion"}
PatientInfoFields == {"name", "age", "gender", "bed_number", "admission_date"}
TaskStrFields ==
    {"task_id", "description", "priority", "task_type", "due_time",
     "patient_identifier", "status", "notes"}
InsuranceSeverity == {"HIGH", "MEDIUM", "LOW"}

\* The raw object carries every key the response schema documents, at every
\* level, with a value the schema allows: the enum keys hold members, a key is
\* null only where the schema says nullable.
FullyPopulatedConformant ==
    /\ Conforms(FALSE, FALSE)
    /\ result_data.summary # Missing
    /\ PopulatedItems(result_data.transcript_segments, SegmentFields)
    /\ \A i \in DOMAIN RawSegs : RawSegs[i].emotion # None
    /\ result_data.documentation.k = "obj"
    /\ DocData.patient_info.k = "obj"
    /\ AllGiven(DocData.patient_info.v, PatientInfoFields)
    /\ \A f \in {"chief_complaints", "procedures", "instructions"} :
          DocData[f].k = "list"
    /\ PopulatedItems(DocData.symptoms, SymptomFields)
    /\ PopulatedItems(DocData.vital_signs, VitalSignFields)
    /\ PopulatedItems(DocData.diagnoses, DiagnosisFields)
    /\ PopulatedItems(DocData.medications, MedicationFields)
    /\ PopulatedItems(DocData.insurance_audit, InsuranceIssueFields)
    /\ \A i \in DOMAIN RawItems(DocData.insurance_audit) :
          RawItems(DocData.insurance_audit)[i].severity \in InsuranceSeverity
    /\ DocData.follow_up # Missing /\ DocData.notes # Missing
    /\ DocData.nurse_handover.k \in {"null", "obj"}
    /\ DocData.patient_summary.k \in {"null", "obj"}
    /\ PopulatedItems(result_data.nurse_tasks, TaskStrFields)
    /\ \A i \in DOMAIN RawTaskItems :
          LET t == RawTaskItems[i]
          IN  /\ Given(t.task_id) /\ Given(t.description) /\ Given(t.task_type)
              /\ Given(t.priority) /\ Given(t.status)
              /\ t.due_minutes.k \in {"null", "int"}
              /\ t.medication_details.k \in {"null", "obj"}
              /\ t.medication_details.k = "obj" =>
                    AllGiven(t.medication_details.v, TaskMedicationFields)

\* two list values hold lists of the same length whose items agree, in order,
\* on every key of `keys`
SameItems(x, y, keys) ==
    /\ x.k = "list" /\ y.k = "list"
    /\ Len(x.v) = Len(y.v)
    /\ \A i \in DOMAIN x.v : \A f \in keys : x.v[i][f] = y.v[i][f]

\* two object values are both null, or both objects that agree on `keys`
SameObject(x, y, keys) ==
    /\ x.k = y.k
    /\ x.k = "obj" => \A f \in keys : x.v[f] = y.v[f]

\* the serialized dict d equals the raw object on every documented key
DocumentedEqual(raw, d) ==
    /\ d.summary = raw.summary
    /\ SameItems(raw.transcript_segments, d.transcript_segments, SegmentFields)
    /\ d.documentation.k = "obj"
    /\ LET rd == raw.documentation.v
           dd == d.documentation.v
       IN  /\ SameObject(rd.patient_info, dd.patient_info, PatientInfoFields)
           /\ dd.patient_info.k = "obj"
           /\ \A f \in {"chief_complaints", "procedures", "instructions"} :
                 dd[f] = rd[f]
           /\ SameItems(rd.symptoms, dd.symptoms, SymptomFields)
           /\ SameItems(rd.vital_signs, dd.vital_signs, VitalSignFields)
           /\ SameItems(rd.diagnoses, dd.diagnoses, DiagnosisFields)
           /\ SameItems(rd.medications, dd.medications, MedicationFields)
           /\ SameItems(rd.insurance_audit, dd.insurance_audit, InsuranceIssueFields)
           /\ dd.follow_up = rd.follow_up /\ dd.notes = rd.notes
           /\ SameObject(rd.nurse_handover, dd.nurse_handover,
                         {"summary_sbar", "critical_alerts", "pending_actions"})
           /\ SameObject(rd.patient_summary, dd.patient_summary,
                         {"translated_content", "whatsapp_message"})
    /\ SameItems(raw.nurse_tasks, d.nurse_tasks, TaskStrFields \cup {"due_minutes"})
    /\ \A i \in DOMAIN RawItems(raw.nurse_tasks) :
          SameObject(raw.nurse_tasks.v[i].medication_details,
                     d.nurse_tasks.v[i].medication_details, TaskMedicationFields)

\* C11: for every raw object that carries every documented key with a value
\* the schema allows, _parse_response returns, and the model_dump of what it
\* returns equals the raw object on every documented key, list order and
\* nested objects included.
C11_RoundTrip ==
    FullyPopulatedConformant =>
        /\ pc # "raised"
        /\ dumped # NoDump => DocumentedEqual(result_data, dumped.v)

\* a fully populated object with a task that has a due_minutes and a
\* medication, a handover and a patient summary, serialized
C11_Witness ==
    /\ FullyPopulatedConformant
    /\ dumped # NoDump
    /\ Len(RawTaskItems) = MaxItems
    /\ RawTaskItems[1].due_minutes.k = "int"
    /\ RawTaskItems[1].medication_details.k = "obj"
    /\ DocData.nurse_handover.k = "obj"

\* the same with the nullable keys null
C11_NullWitness ==
    /\ FullyPopulatedConformant
    /\ dumped # NoDump
    /\ \/ DocData.nurse_handover.k = "null"
       \/ \E i \in DOMAIN RawTaskItems : RawTaskItems[i].medication_details.k = "null"

\* one result equals another except for the task_id of the tasks whose raw
\* entry has no task_id; those that have one keep it
EqualButSynthesizedIds(a, b) ==
    /\ [a EXCEPT !.nurse_tasks = <<>>] = [b EXCEPT !.nurse_tasks = <<>>]
    /\ Len(a.nurse_tasks) = Len(b.nurse_tasks)
    /\ Len(a.nurse_tasks) = Len(RawTaskItems)
    /\ \A i \in DOMAIN RawTaskItems :
          /\ [a.nurse_tasks[i] EXCEPT !.task_id = ""]
                = [b.nurse_tasks[i] EXCEPT !.task_id = ""]
          /\ RawTaskItems[i].task_id # Missing =>
                /\ a.nurse_tasks[i].task_id = RawTaskItems[i].task_id
                /\ b.nurse_tasks[i].task_id = RawTaskItems[i].task_id

EveryTaskHasId == \A i \in DOMAIN RawTaskItems : RawTaskItems[i].task_id # Missing

\* C12: two calls of _parse_response on the same raw object and elapsed time
\* end the same way, and when they return, the results are equal in every
\* field except the task_id of tasks whose raw entry has no task_id; when
\* every raw task has one the results are identical and carry it verbatim.
C12_Deterministic ==
    second # NotCalled =>
        /\ second.pc = pc
        /\ pc = "returned" =>
              /\ EqualButSynthesizedIds(result, second.result)
              /\ EveryTaskHasId => result = second.result

\* two calls returned on an object with a task that carries its id and one
\* that does not, and the synthesized ids differ
C12_Witness ==
    /\ second # NotCalled /\ pc = "returned"
    /\ \E i, j \in DOMAIN RawTaskItems :
          /\ RawTaskItems[i].task_id = Missing
          /\ RawTaskItems[j].task_id # Missing
          /\ result.nurse_tasks[i].task_id # second.result.nurse_tasks[i].task_id

\* two calls returned on an object whose tasks all carry their ids
C12_IdenticalWitness ==
    /\ second # NotCalled /\ pc = "returned"
    /\ EveryTaskHasId /\ Len(RawTaskItems) = MaxItems

(***************************************************************************)
(* The service: main.py's process_url and process_audio handlers and       *)
(* gemini_processor.py's get_client, process_youtube_url and               *)
(* process_audio_file.  The handlers are coroutines of one event loop: a   *)
(* request runs without interruption until it awaits something that        *)
(* suspends, and `running` names the request that holds the loop.  The     *)
(* collaborator works on an uploaded file on its own.                      *)
(***************************************************************************)
\* the requests that arrive in one behaviour
MaxRequests == 2

Requests == 1..MaxRequests

\* os.getenv("GOOGLE_API_KEY"): unset, empty or a key
ApiKeys == {None, "", "key"}

\* mutant of KeyConfigured: `api_key is None` in place of `not api_key`
KeyConfiguredNotNone(k) == k # None

\* `not api_key` is false
KeyConfigured(k) == k # None /\ k # ""

\* main.py: allowed_types
allowed_types ==
    ("audio/mpeg" :> "mp3") @@ ("audio/mp3" :> "mp3") @@ ("audio/wav" :> "wav")
    @@ ("audio/x-wav" :> "wav") @@ ("audio/webm" :> "webm") @@ ("audio/ogg" :> "ogg")
    @@ ("audio/mp4" :> "m4a") @@ ("audio/x-m4a" :> "m4a") @@ ("video/webm" :> "webm")

AudioExtensions == {"mp3", "wav", "webm", "ogg", "m4a"}

\* a file name is null or a string, written as its pieces: "." and "/" are
\* pieces of their own
FileName(pieces) == [k |-> "name", v |-> pieces]

\* file.content_type of the uploads: none, empty, in the allow-list, not in it
ContentTypes == {None, "", "audio/wav", "application/pdf", "Audio/Wav"}

\* file.filename of the uploads
FileNames ==
    {Null, FileName(<<>>), FileName(<<"a", ".", "mp3">>), FileName(<<"a", ".", "MP3">>),
     FileName(<<"a", ".", "pdf">>), FileName(<<"a">>), FileName(<<".", "mp3">>),
     FileName(<<"a", ".", "mp3", "/", "b">>), FileName(<<"a", ".", "tar", ".", "ogg">>)}

\* file.content_type or "audio/mpeg"
ContentTypeOrDefault(ct) == IF ct = None \/ ct = "" THEN "audio/mpeg" ELSE ct

\* file.filename or ""
FileNameOrEmpty(f) == IF f.k = "name" THEN f.v ELSE <<>>

\* the positions of piece c in s
PositionsOf(s, c) == {i \in DOMAIN s : s[i] = c}

\* the greatest member of a non-empty set of numbers
Greatest(S) == CHOOSE i \in S : \A j \in S : j <= i

\* PurePath.name: what follows the last "/"
PathName(s) ==
    IF PositionsOf(s, "/") = {} THEN s
    ELSE SubSeq(s, Greatest(PositionsOf(s, "/")) + 1, Len(s))

\* PurePath.suffix: the name from its last "." on, when that dot is neither the
\* first nor the last piece of the name
PathSuffix(s) ==
    LET name == PathName(s)
        dots == PositionsOf(name, ".")
    IN  IF dots # {} /\ Greatest(dots) > 1 /\ Greatest(dots) < Len(name)
        THEN SubSeq(name, Greatest(dots), Len(name))
        ELSE <<>>

\* str.lower() of one piece
LowerPiece(c) == IF c = "MP3" THEN "mp3" ELSE c

\* str.lower()
Lower(s) == [i \in DOMAIN s |-> LowerPiece(s[i])]

\* str.lstrip(".")
RECURSIVE LStripDots(_)
LStripDots(s) == IF s # <<>> /\ Head(s) = "." THEN LStripDots(Tail(s)) ELSE s

\* Path(file.filename or "").suffix.lower().lstrip(".")
ExtOf(f) == LStripDots(Lower(PathSuffix(FileNameOrEmpty(f))))

\* ext in ["mp3", "wav", "webm", "ogg", "m4a"]
ExtRecognized(ext) == Len(ext) = 1 /\ ext[1] \in AudioExtensions

\* the handler's decision to go on with the upload
UploadAccepted(ct, f) ==
    \/ ContentTypeOrDefault(ct) \in DOMAIN allowed_types
    \/ ExtRecognized(ExtOf(f))

\* uploaded_file.state.name
FileStates == {"PROCESSING", "ACTIVE", "FAILED"}

\* mutants of StillProcessing: the loop is not entered; the loop is not left
StillProcessingNever(state) == FALSE
StillProcessingAlways(state) == TRUE

\* while uploaded_file.state.name == "PROCESSING"
StillProcessing(state) == state = "PROCESSING"

\* response.text of the model: not JSON, or one of these objects
NotJson == [k |-> "not_json"]
Responses ==
    {NotJson, Obj(FullResultData), Obj(EmptyResultData),
     Obj([EmptyResultData EXCEPT !.summary = None])}

\* json.loads(response.text) and _parse_response(result_data, processing_time)
\* return
ResponseParses(resp) ==
    /\ resp.k = "obj"
    /\ \E uuids \in [TaskIndexes(resp.v) -> Uuid8] : ParseResponseReturns(resp.v, uuids)

\* a request that has not arrived
IdleRequest ==
    [kind |-> "none", pc |-> "idle", ret |-> "none", content_type |-> None,
     filename |-> Null, sus |-> FALSE, awaited |-> FALSE, temp |-> "none",
     state |-> "none", calls |-> {}, got |-> 0, outcome |-> "none",
     cause |-> "none"]

\* process_url, process_audio, and a direct call of get_client
Kinds == {"url", "audio", "client"}

\* the mappings module is not part of the behaviour
MapUnused ==
    /\ result_data = EmptyResultData /\ processing_time = 1
    /\ pc = "unused" /\ result = NoResult

InitSvc ==
    /\ MapUnused
    /\ CallsUnused
    /\ api_key \in ApiKeys
    /\ client = 0
    /\ constructed = 0
    /\ running = 0
    /\ req = [r \in Requests |-> IdleRequest]
    /\ remote = [r \in Requests |-> "none"]

\* request r holds the event loop
Runs(r) == running = r /\ ~req[r].sus

\* request r is answered: the response of the handler, or what the direct
\* call returned or raised; the event loop is free
Finish(r, rec, outcome, cause) ==
    /\ req' = [req EXCEPT ![r] = [rec EXCEPT !.pc = "done", !.outcome = outcome,
                                             !.cause = cause, !.awaited = FALSE]]
    /\ running' = 0

\* an exception inside the handler's try: except Exception as e: raise
\* HTTPException(status_code=500, detail=str(e)); a direct call lets it out
Raise(r, rec, cause) ==
    Finish(r, rec, IF rec.kind = "client" THEN "raised" ELSE "error", cause)

\* request r goes on at `to`
Goto(r, rec, to) ==
    /\ req' = [req EXCEPT ![r] = [rec EXCEPT !.pc = to]]
    /\ UNCHANGED running

\* what the step changes is the request and the holder of the event loop
RequestStep == UNCHANGED <<mapVars, callVars, api_key, client, constructed, remote>>

\* mutant of YieldsAt: the event loop may be taken from a request anywhere
YieldsAnywhere(at) == TRUE

\* where a request awaits something that may suspend it: await file.read()
YieldsAt(at) == at = "read"

\* a request arrives and the event loop starts its handler (or the direct call)
Begin(r) ==
    /\ running = 0
    /\ req[r].pc = "idle"
    /\ \A q \in Requests : q < r => req[q].pc # "idle"
    /\ \E kind \in Kinds, ct \in ContentTypes, f \in FileNames :
          /\ kind # "audio" => ct = None /\ f = Null
          /\ req' = [req EXCEPT ![r] =
                        [IdleRequest EXCEPT !.kind = kind, !.content_type = ct,
                                            !.filename = f,
                                            !.pc = IF kind = "client" THEN "client"
                                                   ELSE "key_check"]]
    /\ running' = r
    /\ RequestStep

\* if not os.getenv("GOOGLE_API_KEY"): raise HTTPException(status_code=500, ...)
CheckKey(r) ==
    /\ Runs(r)
    /\ req[r].pc = "key_check"
    /\ IF KeyConfigured(api_key)
       THEN Goto(r, req[r], IF req[r].kind = "url" THEN "generate" ELSE "validate")
       ELSE Finish(r, req[r], "config_error", "no_credential")
    /\ RequestStep

\* content_type = file.content_type or "audio/mpeg"; the allow-list and the
\* extension test; raise HTTPException(status_code=400, ...)
Validate(r) ==
    /\ Runs(r)
    /\ req[r].pc = "validate"
    /\ LET rec == [req[r] EXCEPT !.content_type = None, !.filename = Null]
       IN  IF UploadAccepted(req[r].content_type, req[r].filename)
           THEN Goto(r, rec, "open_temp")
           ELSE Finish(r, rec, "rejected", "unsupported")
    /\ RequestStep

\* with open(temp_path, "wb") as f: the file is created, or open raises
OpenTemp(r) ==
    /\ Runs(r)
    /\ req[r].pc = "open_temp"
    /\ \/ Goto(r, [req[r] EXCEPT !.temp = "created"], "read")
       \/ Raise(r, req[r], "open")
    /\ RequestStep

\* an await suspends the request and frees the event loop
Yield(r) ==
    /\ Runs(r)
    /\ YieldsAt(req[r].pc)
    /\ ~req[r].awaited
    /\ req[r].pc \notin {"idle", "done"}
    /\ req' = [req EXCEPT ![r].sus = TRUE, ![r].awaited = TRUE]
    /\ running' = 0
    /\ RequestStep

\* the event loop takes up a suspended request
Resume(r) ==
    /\ running = 0
    /\ req[r].sus
    /\ req' = [req EXCEPT ![r].sus = FALSE]
    /\ running' = r
    /\ RequestStep

\* content = await file.read(); f.write(content); process_audio_file is
\* entered and reads the file
ReadWrite(r) ==
    /\ Runs(r)
    /\ req[r].pc = "read"
    /\ Goto(r, req[r], "upload")
    /\ RequestStep

\* where get_client() is called, and where the call on the client is made
CallSites == {"client", "generate", "upload", "poll", "delete"}
CallOf ==
    [client |-> "returning", generate |-> "generating", upload |-> "uploading",
     poll |-> "polling", delete |-> "deleting"]

\* get_client(): if _client is None: api_key = os.getenv(...); if not api_key:
\* raise ValueError(...); the ValueError is swallowed at the delete
GetClient(r) ==
    /\ Runs(r)
    /\ req[r].pc \in CallSites
    /\ IF client # 0
       THEN Goto(r, [req[r] EXCEPT !.got = client], CallOf[req[r].pc])
       ELSE IF KeyConfigured(api_key)
       THEN Goto(r, [req[r] EXCEPT !.ret = CallOf[req[r].pc]], "gc_construct")
       ELSE IF req[r].pc = "delete"
       THEN Goto(r, req[r], "parse")
       ELSE Raise(r, req[r], "no_credential")
    /\ RequestStep

\* _client = genai.Client(api_key=api_key); return _client
Construct(r) ==
    /\ Runs(r)
    /\ req[r].pc = "gc_construct"
    /\ client' = constructed + 1
    /\ constructed' = constructed + 1
    /\ Goto(r, [req[r] EXCEPT !.got = constructed + 1, !.ret = "none"], req[r].ret)
    /\ UNCHANGED <<mapVars, callVars, api_key, remote>>

\* the direct call of get_client() returns the client
Return(r) ==
    /\ Runs(r)
    /\ req[r].pc = "returning"
    /\ Finish(r, req[r], "client", "none")
    /\ RequestStep

\* request r has made the call `c` on the collaborator
Called(r, c) == [req[r] EXCEPT !.calls = @ \cup {c}]

\* uploaded_file = get_client().files.upload(...): the collaborator takes the
\* file and reports its state, or the call raises
Upload(r) ==
    /\ Runs(r)
    /\ req[r].pc = "uploading"
    /\ \/ \E s \in FileStates :
             /\ Goto(r, [Called(r, "upload") EXCEPT !.state = s], "loop_test")
             /\ remote' = [remote EXCEPT ![r] = s]
       \/ /\ Raise(r, Called(r, "upload"), "upload")
          /\ UNCHANGED remote
    /\ UNCHANGED <<mapVars, callVars, api_key, client, constructed>>

\* while uploaded_file.state.name == "PROCESSING": time.sleep(1)
LoopTest(r) ==
    /\ Runs(r)
    /\ req[r].pc = "loop_test"
    /\ Goto(r, req[r], IF StillProcessing(req[r].state) THEN "poll" ELSE "failed_test")
    /\ RequestStep

\* uploaded_file = get_client().files.get(name=uploaded_file.name): the
\* collaborator reports the state of the file, or the call raises
Poll(r) ==
    /\ Runs(r)
    /\ req[r].pc = "polling"
    /\ \/ Goto(r, [Called(r, "get") EXCEPT !.state = remote[r]], "loop_test")
       \/ Raise(r, Called(r, "get"), "poll")
    /\ RequestStep

\* the collaborator is done with the file of request r
CollaboratorFinish(r) ==
    /\ remote[r] = "PROCESSING"
    /\ \E s \in {"ACTIVE", "FAILED"} : remote' = [remote EXCEPT ![r] = s]
    /\ UNCHANGED <<mapVars, callVars, api_key, client, constructed, running, req>>

\* if uploaded_file.state.name == "FAILED": raise Exception(...)
FailedTest(r) ==
    /\ Runs(r)
    /\ req[r].pc = "failed_test"
    /\ IF req[r].state = "FAILED"
       THEN Raise(r, req[r], "file_failed")
       ELSE Goto(r, req[r], "generate")
    /\ RequestStep

\* response = get_client().models.generate_content(...), or the call raises
Generate(r) ==
    /\ Runs(r)
    /\ req[r].pc = "generating"
    /\ \/ Goto(r, Called(r, "generate"),
               IF req[r].kind = "audio" THEN "delete" ELSE "parse")
       \/ Raise(r, Called(r, "generate"), "generate")
    /\ RequestStep

\* try: get_client().files.delete(name=uploaded_file.name) except: pass
Delete(r) ==
    /\ Runs(r)
    /\ req[r].pc = "deleting"
    /\ Goto(r, Called(r, "delete"), "parse")
    /\ \/ remote' = [remote EXCEPT ![r] = "DELETED"]
       \/ UNCHANGED remote
    /\ UNCHANGED <<mapVars, callVars, api_key, client, constructed>>

\* result_data = json.loads(response.text); return _parse_response(...);
\* process_url: return result.model_dump()
Parse(r) ==
    /\ Runs(r)
    /\ req[r].pc = "parse"
    /\ \E resp \in Responses :
          IF resp = NotJson THEN Raise(r, req[r], "not_json")
          ELSE IF ~ResponseParses(resp) THEN Raise(r, req[r], "parse")
          ELSE IF req[r].kind = "audio" THEN Goto(r, req[r], "unlink")
          ELSE Finish(r, req[r], "result", "none")
    /\ RequestStep

\* try: temp_path.unlink() except: pass; return result.model_dump()
Unlink(r) ==
    /\ Runs(r)
    /\ req[r].pc = "unlink"
    /\ \E t \in {"deleted", "unlink_failed"} :
          Finish(r, [req[r] EXCEPT !.temp = t], "result", "none")
    /\ RequestStep

\* the steps the event loop takes for request r once it has arrived
Step(r) ==
    \/ CheckKey(r) \/ Validate(r) \/ OpenTemp(r) \/ ReadWrite(r) \/ GetClient(r)
    \/ Construct(r) \/ Return(r) \/ Upload(r) \/ LoopTest(r) \/ Poll(r)
    \/ FailedTest(r) \/ Generate(r) \/ Delete(r) \/ Parse(r) \/ Unlink(r)

NextSvc ==
    \E r \in Requests :
        \/ Begin(r) \/ Yield(r) \/ Resume(r) \/ CollaboratorFinish(r)
        \/ CheckKey(r) \/ Validate(r) \/ OpenTemp(r) \/ ReadWrite(r) \/ GetClient(r)
        \/ Construct(r) \/ Return(r) \/ Upload(r) \/ LoopTest(r) \/ Poll(r)
        \/ FailedTest(r) \/ Generate(r) \/ Delete(r) \/ Parse(r) \/ Unlink(r)

SpecSvc == InitSvc /\ [][NextSvc]_vars

(***************************************************************************)
(* Properties of the service.                                              *)
(***************************************************************************)
\* the credential is unset or empty
NoCredential == api_key = None \/ api_key = ""

\* the requests of the two handlers
Processing(r) == req[r].kind \in {"url", "audio"}

Answered(r) == req[r].pc = "done"

\* C13: when the credential is not configured, every process-url and
\* process-audio request ends in the configuration error, and during it no
\* call is made on the collaborator and no temp file is written.
C13_NoCredentialNoWork ==
    NoCredential =>
        \A r \in Requests :
            Processing(r) =>
                /\ req[r].calls = {}
                /\ req[r].temp = "none"
                /\ remote[r] = "none"
                /\ Answered(r) =>
                      req[r].outcome = "config_error" /\ req[r].cause = "no_credential"

\* without a credential, a process-url and a process-audio request were answered
C13_Witness ==
    /\ NoCredential
    /\ \E r, q \in Requests :
          /\ req[r].kind = "url" /\ Answered(r)
          /\ req[q].kind = "audio" /\ Answered(q)

\* the same with an empty credential
C13_EmptyWitness ==
    api_key = "" /\ \E r \in Requests : req[r].kind = "audio" /\ Answered(r)

\* the upload's declared content type is not in the allow-list and its file
\* name has none of the extensions mp3, wav, webm, ogg, m4a
Unsupported(ct, f) ==
    /\ ct \notin DOMAIN allowed_types
    /\ ~ExtRecognized(ExtOf(f))

\* a rejected request wrote no temp file and made no call
RejectedCleanly(rec) ==
    /\ rec.pc = "done" /\ rec.outcome = "rejected"
    /\ rec.temp = "none" /\ rec.calls = {}

\* C14: a process-audio upload whose declared content type is not in the
\* allow-list and whose extension is not recognized is rejected with the
\* client error, without a temp file and without a collaborator call; every
\* other upload is passed on to processing.
C14_UnsupportedRejected ==
    [][\A r \in Requests :
          (req[r].pc = "validate" /\ req'[r].pc # "validate") =>
              IF Unsupported(req[r].content_type, req[r].filename)
              THEN RejectedCleanly(req'[r])
              ELSE req'[r].pc = "open_temp"]_vars

\* C15: once process_audio_file has uploaded the media, a delete of the
\* remote artifact has been attempted by the time the request is answered, on
\* every path.
C15_RemoteDeleteAttempted ==
    \A r \in Requests :
        (Answered(r) /\ req[r].state # "none") => "delete" \in req[r].calls

\* C16: once process-audio has created the temp file, its deletion has been
\* attempted by the time the request is answered, whether processing returned
\* or raised.
C16_TempFileDeleted ==
    \A r \in Requests :
        (Answered(r) /\ req[r].temp # "none") =>
            req[r].temp \in {"deleted", "unlink_failed"}

\* request r makes the call `c` in this step
Calls(r, c) == c \notin req[r].calls /\ c \in req'[r].calls

\* C17: process_audio_file issues the inference call only when the last
\* reported state of the upload is neither PROCESSING nor FAILED, and a
\* request whose upload was last reported FAILED ends in an error, without
\* the inference call and without a result.
C17_InferenceAfterReady ==
    [][\A r \in Requests :
          req'[r].kind = "audio" =>
              /\ Calls(r, "generate") =>
                    req[r].state \in FileStates \ {"PROCESSING", "FAILED"}
              /\ (req'[r].pc = "done" /\ req'[r].state = "FAILED") =>
                    /\ req'[r].outcome = "error"
                    /\ "generate" \notin req'[r].calls]_vars

\* an upload was reported PROCESSING, polled, and then the inference was made
C17_Witness ==
    \E r \in Requests :
        /\ req[r].kind = "audio"
        /\ {"get", "generate"} \subseteq req[r].calls

\* an upload was reported FAILED after a poll and the request was answered
C17_FailedWitness ==
    \E r \in Requests :
        /\ req[r].kind = "audio" /\ Answered(r)
        /\ "get" \in req[r].calls /\ req[r].state = "FAILED"

\* C18: whatever the interleaving of the requests, the client is constructed
\* at most once; once it exists it is never replaced, every get_client
\* returns it, and a get_client that fails for the missing credential leaves
\* the client uninitialized.
C18_ClientConstructedOnce ==
    [][/\ constructed' <= 1
       /\ client # 0 => (client' = client /\ constructed' = constructed)
       /\ \A r \in Requests :
             /\ req'[r].got # req[r].got => (client' # 0 /\ req'[r].got = client')
             /\ req'[r].got # 0 => req'[r].got = client'
             /\ (req[r].pc # "done" /\ req'[r].pc = "done"
                    /\ req'[r].cause = "no_credential"
                    /\ req'[r].outcome \in {"raised", "error"}) =>
                   client' = 0 /\ constructed' = 0]_vars

\* two requests, one of them suspended on the way, got the one client
C18_Witness ==
    /\ constructed = 1 /\ client # 0
    /\ \E r, q \in Requests :
          /\ r # q
          /\ req[r].awaited /\ req[r].got = client
          /\ req[q].got = client

\* a direct get_client failed for the missing credential
C18_FailedWitness ==
    \E r \in Requests :
        req[r].kind = "client" /\ req[r].outcome = "raised" /\ client = 0

(***************************************************************************)
(* The service under fair scheduling: the event loop goes on with a        *)
(* request that can take a step and takes up a suspended request when it   *)
(* is free, every call on the collaborator returns or raises, and the      *)
(* collaborator gets done with a file it is processing.                    *)
(***************************************************************************)
Fairness ==
    \A r \in Requests :
        /\ WF_vars(Step(r))
        /\ WF_vars(Resume(r))
        /\ WF_vars(CollaboratorFinish(r))

SpecLive == InitSvc /\ [][NextSvc]_vars /\ Fairness

\* the positions of the upload-status poll loop
PollLoop == {"loop_test", "poll", "polling"}

\* C19: when the collaborator gets done with the file and every poll call
\* returns, a process-audio request that has arrived is eventually answered,
\* with a result or an error; and the poll loop is left only when a state
\* other than PROCESSING was reported or the poll call raised: it has no
\* attempt cap and no deadline.
C19_PollLoopTerminates ==
    /\ \A r \in Requests :
          (req[r].kind = "audio" /\ ~Answered(r))
              ~> (Answered(r) /\ req[r].outcome # "none")
    /\ [][\A r \in Requests :
             (req[r].pc \in PollLoop /\ req'[r].pc \notin PollLoop) =>
                 \/ req'[r].state \in FileStates \ {"PROCESSING"}
                 \/ req'[r].pc = "done" /\ req'[r].cause = "poll"]_vars

\* a request whose upload was reported PROCESSING left the loop after a poll
\* and was answered with a result
C19_Witness ==
    \E r \in Requests :
        /\ req[r].kind = "audio" /\ Answered(r)
        /\ "get" \in req[r].calls
        /\ req[r].outcome = "result"

====
